---- MODULE Spec2Model ----
(***************************************************************************)
(* A model of junit-grader.py: the JUnit testcase classifier, the rubric   *)
(* generator (generate_score) and the two reporters (grade_txt and         *)
(* gradescope_json).                                                       *)
(*                                                                         *)
(* Strings are TLA+ strings; the text key "classname:testname" that        *)
(* grade_txt builds is built here by the same concatenation, so two        *)
(* different (classname, testname) pairs may yield one text.               *)
(* The max_score cells of the rubric file are decimal text in the CSV;     *)
(* they are kept as integers here (int(str(n)) = n for every integer n).   *)
(***************************************************************************)
EXTENDS Integers, Sequences, FiniteSets, TLC

VARIABLES
    op,            \* the operation run: "classify", "generate", "grade-txt", "gradescope"
    pc,            \* position of the run
    TIMEOUT,       \* the module-level TIMEOUT threshold
    testcase,      \* the testcase element handed to process_junit_testcase
    result,        \* what process_junit_testcase returned
    score_file,    \* the rubric file: [header, rows]
    xml_files,     \* the reports named on the command line
    max_score,     \* generate_score's total
    rows,          \* generate_score's local list `rows`
    fi,            \* index of the next report of xml_files to parse
    test_results,  \* the reporter's current `test_results` list
    ti,            \* index of the next element of test_results to merge
    all_results,   \* the reporter's OrderedDict, as a sequence of [key, val]
    total,         \* grade_txt's `total`
    total_max,     \* grade_txt's `total_max`
    stdout         \* what has been printed

vars == <<op, pc, TIMEOUT, testcase, result, score_file, xml_files, max_score,
          rows, fi, test_results, ti, all_results, total, total_max, stdout>>

---------------------------------------------------------------------------
(* Bounds *)

MaxTimeout == 15
MaxGenFiles == 2
MaxGenTests == 2
MaxTotal == 5
MaxRows == 2
MaxFiles == 2
MaxOutcomes == 2

(* Program constants *)

DefaultTimeout == 10
DefaultMaxScore == 100

---------------------------------------------------------------------------
(* XML elements *)

\* an attribute or a child element the testcase does not have
Absent == "<absent>"
\* the .text of an element without text
None == "<None>"
\* a dict key that has not been set
Missing == "<missing>"

TimeoutMessage == "TIMEOUT (infinite loop?)"

SeqsUpTo(S, n) == UNION {[1..k -> S] : k \in 0..n}

RECURSIVE SumSeq(_)
SumSeq(s) == IF s = <<>> THEN 0 ELSE Head(s) + SumSeq(Tail(s))

RECURSIVE Flatten(_)
Flatten(ss) == IF ss = <<>> THEN <<>> ELSE Head(ss) \o Flatten(Tail(ss))

\* float() of the time attribute's text
Float(text) ==
    CASE text = "5" -> 5
      [] text = "10" -> 10
      [] text = "15" -> 15
      [] text = "16" -> 16
      [] text = "20" -> 20

TestCase(c, n, f, so, st, t) ==
    [classname |-> c, name |-> n, failure |-> f, sout |-> so, status |-> st, time |-> t]

---------------------------------------------------------------------------
(* process_junit_testcase *)

TestResult(c, n, s, o) ==
    [raised |-> FALSE, classname |-> c, name |-> n, success |-> s, output |-> o]

\* a KeyError out of testcase.attrib[...]
RaisedResult ==
    [raised |-> TRUE, classname |-> "", name |-> "", success |-> FALSE, output |-> ""]

TimedOutGe(runtime, timeout) == runtime >= timeout

TimedOut(runtime, timeout) == runtime > timeout

StatusRunOrOther(status) == status # "fail"

StatusIsRun(status) == status = "run"

\* the value of `output` after the timeout check; Absent when attrib["time"] raises
TimeoutOutput(tc, timeout) ==
    IF tc.time = Absent THEN Absent
    ELSE IF TimedOut(Float(tc.time), timeout) THEN TimeoutMessage
    ELSE None

OrEmpty(output) == IF output = None THEN "" ELSE output

process_junit_testcase(tc, timeout) ==
    IF tc.classname = Absent \/ tc.name = Absent THEN RaisedResult
    ELSE IF tc.failure # Absent THEN
        LET o1 == IF tc.failure # None THEN tc.failure ELSE None
            o2 == IF o1 = None /\ tc.sout # Absent THEN tc.sout ELSE o1
            o3 == IF o2 = None THEN TimeoutOutput(tc, timeout) ELSE o2
        IN  IF o3 = Absent THEN RaisedResult
            ELSE TestResult(tc.classname, tc.name, FALSE, OrEmpty(o3))
    ELSE IF tc.status # Absent THEN
        IF StatusIsRun(tc.status) THEN TestResult(tc.classname, tc.name, TRUE, "")
        ELSE IF tc.status = "fail" THEN
            LET o == IF tc.sout # Absent /\ tc.sout # None THEN tc.sout
                     ELSE TimeoutOutput(tc, timeout)
            IN  IF o = Absent THEN RaisedResult
                ELSE TestResult(tc.classname, tc.name, FALSE, OrEmpty(o))
        ELSE TestResult(tc.classname, tc.name, FALSE, "")
    ELSE TestResult(tc.classname, tc.name, TRUE, "")

\* a report file: well-formed XML or not, and its testcase elements in document order
Report(wf, tcs) == [wellformed |-> wf, testcases |-> tcs]

MalformedReport == Report(FALSE, <<>>)

process_junit(report, timeout) ==
    LET rs == [i \in 1..Len(report.testcases) |->
                   process_junit_testcase(report.testcases[i], timeout)]
    IN  IF ~report.wellformed \/ (\E i \in 1..Len(rs) : rs[i].raised)
        THEN [raised |-> TRUE, results |-> <<>>]
        ELSE [raised |-> FALSE, results |-> rs]

---------------------------------------------------------------------------
(* The classifier on its own *)

Timeouts == {DefaultTimeout, MaxTimeout}

TestCases ==
    {TestCase(c, n, f, so, st, t) :
        c \in {Absent, "A"}, n \in {Absent, "t"},
        f \in {Absent, None, "assert failed"},
        so \in {Absent, None, "printed"},
        st \in {Absent, "run", "fail", "skipped"},
        t \in {Absent, "5", "10", "15", "16", "20"}}

NoResult == [raised |-> FALSE, classname |-> "", name |-> "", success |-> FALSE, output |-> ""]

NoFile == [header |-> FALSE, rows |-> <<>>]

IdleClassifier ==
    /\ testcase = TestCase(Absent, Absent, Absent, Absent, Absent, Absent)
    /\ result = NoResult

IdleGenerate ==
    /\ max_score = 0
    /\ rows = <<>>

IdleGrade ==
    /\ test_results = <<>>
    /\ ti = 1
    /\ all_results = <<>>
    /\ total = 0
    /\ total_max = 0
    /\ stdout = <<>>

InitClassify ==
    /\ op = "classify"
    /\ pc = "start"
    /\ TIMEOUT \in Timeouts
    /\ testcase \in TestCases
    /\ result = NoResult
    /\ score_file = NoFile
    /\ xml_files = <<>>
    /\ fi = 1
    /\ IdleGenerate
    /\ IdleGrade

\* one call of process_junit_testcase
Classify ==
    /\ op = "classify"
    /\ pc = "start"
    /\ result' = process_junit_testcase(testcase, TIMEOUT)
    /\ pc' = "classified"
    /\ UNCHANGED <<op, TIMEOUT, testcase, score_file, xml_files, max_score, rows,
                   fi, test_results, ti, all_results, total, total_max, stdout>>

NextClassify == Classify

SpecClassify == InitClassify /\ [][NextClassify]_vars

Returned == pc = "classified" /\ ~result.raised

HasText(child) == child # Absent /\ child # None

\* the diagnostic the resolution order asks for
ExpectedDiagnostic(tc, timeout) ==
    IF HasText(tc.failure) THEN tc.failure
    ELSE IF HasText(tc.sout) THEN tc.sout
    ELSE IF Float(tc.time) > timeout THEN TimeoutMessage
    ELSE ""

\* C5: a testcase classified as failed because of a failure child or
\* status="fail" carries the first available of: the failure child's text,
\* the system-out text, the timeout message when time > threshold, "".
C5_DiagnosticOrder ==
    (Returned /\ (testcase.failure # Absent \/ testcase.status = "fail"))
        => /\ ~result.success
           /\ result.output = ExpectedDiagnostic(testcase, TIMEOUT)

\* status="fail", no system-out, time 15, threshold 10: the timeout message
C5_Witness ==
    /\ Returned
    /\ testcase.failure = Absent /\ testcase.status = "fail"
    /\ testcase.sout = Absent /\ testcase.time = "15" /\ TIMEOUT = 10
    /\ result.output = TimeoutMessage

\* C6: passed exactly when there is no failure child and the status is
\* missing or "run"; a passed outcome has the empty diagnostic.
C6_PassedIff ==
    Returned =>
        /\ result.success <=>
              (testcase.failure = Absent /\ testcase.status \in {Absent, "run"})
        /\ result.success => result.output = ""

\* status="run" with a system-out child and a time above the threshold
C6_Witness ==
    /\ Returned
    /\ result.success /\ result.output = ""
    /\ testcase.status = "run" /\ testcase.sout = "printed" /\ testcase.time = "20"

---------------------------------------------------------------------------
(* generate_score *)

RubricRow(c, n, m) == [classname |-> c, testname |-> n, max_score |-> m]

\* the rubric file as it is left when the `with` block closes it
ScoreFile(rs) == [header |-> TRUE, rows |-> rs]

\* the rubric file of an earlier run
PriorRubric == ScoreFile(<<RubricRow("A", "t", 50), RubricRow("A", "u", 50)>>)

IntTrueDivCeil(a, b) == -((-a) \div b)

\* int(a / b): the true quotient, truncated toward zero
IntTrueDiv(a, b) == IF a >= 0 THEN a \div b ELSE -((-a) \div b)

PassingTestCase(c, n) == TestCase(c, n, Absent, Absent, Absent, "5")

GenTestCases ==
    {PassingTestCase("A", "t"), PassingTestCase("A", "u"), PassingTestCase("A", Absent)}

GenReports ==
    {MalformedReport} \cup {Report(TRUE, tcs) : tcs \in SeqsUpTo(GenTestCases, MaxGenTests)}

Totals == ((0 - MaxTotal)..MaxTotal) \cup {DefaultMaxScore}

InitGenerate ==
    /\ op = "generate"
    /\ pc = "start"
    /\ TIMEOUT = DefaultTimeout
    /\ score_file = PriorRubric
    /\ xml_files \in SeqsUpTo(GenReports, MaxGenFiles) \ {<<>>}
    /\ max_score \in Totals
    /\ rows = <<>>
    /\ fi = 1
    /\ IdleClassifier
    /\ IdleGrade

\* open(score_filename, 'w'), rows = [], writer.writeheader()
GenOpen ==
    /\ op = "generate"
    /\ pc = "start"
    /\ score_file' = ScoreFile(<<>>)
    /\ rows' = <<>>
    /\ fi' = 1
    /\ pc' = "parse"
    /\ UNCHANGED <<op, TIMEOUT, testcase, result, xml_files, max_score,
                   test_results, ti, all_results, total, total_max, stdout>>

\* one turn of `for f in xml_files`
GenParse ==
    /\ op = "generate"
    /\ pc = "parse"
    /\ fi <= Len(xml_files)
    /\ LET parsed == process_junit(xml_files[fi], TIMEOUT)
       IN  IF parsed.raised
           THEN /\ pc' = "fatal"
                /\ UNCHANGED <<rows, fi>>
           ELSE /\ rows' = rows \o [i \in 1..Len(parsed.results) |->
                                       [classname |-> parsed.results[i].classname,
                                        testname |-> parsed.results[i].name]]
                /\ fi' = fi + 1
                /\ pc' = "parse"
    /\ UNCHANGED <<op, TIMEOUT, testcase, result, score_file, xml_files, max_score,
                   test_results, ti, all_results, total, total_max, stdout>>

\* num_rows = len(rows) and the loop that sets max_score and writes each row
GenWrite ==
    /\ op = "generate"
    /\ pc = "parse"
    /\ fi > Len(xml_files)
    /\ LET num_rows == Len(rows)
       IN  score_file' = ScoreFile([i \in 1..num_rows |->
               RubricRow(rows[i].classname, rows[i].testname,
                         IntTrueDiv(max_score, num_rows))])
    /\ pc' = "done"
    /\ UNCHANGED <<op, TIMEOUT, testcase, result, xml_files, max_score, rows, fi,
                   test_results, ti, all_results, total, total_max, stdout>>

NextGenerate == GenOpen \/ GenParse \/ GenWrite

SpecGenerate == InitGenerate /\ [][NextGenerate]_vars

\* the testcase elements of all the reports, file order then in-file order
AllTestCases == Flatten([i \in 1..Len(xml_files) |-> xml_files[i].testcases])

AllWellFormed == \A i \in 1..Len(xml_files) : xml_files[i].wellformed

WrittenScores == [i \in 1..Len(score_file.rows) |-> score_file.rows[i].max_score]

\* C1: generate_score over reports without any testcase ends in a fatal
\* error and leaves no rubric file without entries.
C1_ZeroOutcomesFatal ==
    (op = "generate" /\ pc \in {"done", "fatal"} /\ AllWellFormed /\ AllTestCases = <<>>)
        => (pc = "fatal" /\ score_file.rows # <<>>)

\* every written row carries floor(total / n); the sum is <= total and the
\* shortfall is < n
EvenSplit ==
    LET n == Len(score_file.rows)
    IN  /\ n = Len(AllTestCases)
        /\ \A i \in 1..n :
              /\ score_file.rows[i].max_score * n <= max_score
              /\ max_score < (score_file.rows[i].max_score + 1) * n
        /\ SumSeq(WrittenScores) <= max_score
        /\ max_score - SumSeq(WrittenScores) < n

CompleteRubric(f) ==
    /\ f.header
    /\ Len(f.rows) >= 1
    /\ Len(f.rows) = Len(AllTestCases)

\* C9: a generate_score run that ends in a fatal error leaves the rubric file
\* with its previous content or with a complete rubric.
C9_NoPartialRubric ==
    (op = "generate" /\ pc = "fatal")
        => (score_file = PriorRubric \/ CompleteRubric(score_file))

---------------------------------------------------------------------------
(* grade_txt and gradescope_json *)

\* the key of all_results: grade_txt joins the two names into one text,
\* gradescope_json keeps the pair
FullName(o, c, n) == IF o = "grade-txt" THEN c \o ":" \o n ELSE <<c, n>>

\* the "name" field: classname + ":" + testname
FullNameStr(c, n) == c \o ":" \o n

Entry(k, nm, m, sc, out) ==
    [key |-> k, name |-> nm, max_score |-> m, score |-> sc, output |-> out]

HasKey(d, k) == \E i \in 1..Len(d) : d[i].key = k

IndexOf(d, k) == CHOOSE i \in 1..Len(d) : d[i].key = k

\* d[k] = e on an OrderedDict: a known key keeps its place, a new key goes last
DictPut(d, k, e) == IF HasKey(d, k) THEN [d EXCEPT ![IndexOf(d, k)] = e] ELSE Append(d, e)

\* the `for row in reader` loop over the rows rs[i..]
RECURSIVE LoadRows(_, _, _, _)
LoadRows(o, rs, i, d) ==
    IF i > Len(rs) THEN d
    ELSE LET k == FullName(o, rs[i].classname, rs[i].testname)
             e == Entry(k, FullNameStr(rs[i].classname, rs[i].testname),
                        rs[i].max_score, 0, Missing)
         IN  LoadRows(o, rs, i + 1, DictPut(d, k, e))

ClassNames == {"A", "A:b"}

TestNames == {"t", "b:t"}

FailingTestCase(c, n) == TestCase(c, n, "assert failed", Absent, Absent, "5")

SilentFailTestCase(c, n) == TestCase(c, n, Absent, Absent, "fail", "5")

GradeTestCases ==
    {PassingTestCase(c, n) : c \in ClassNames, n \in TestNames}
    \cup {FailingTestCase(c, n) : c \in ClassNames, n \in TestNames}
    \cup {SilentFailTestCase(c, n) : c \in ClassNames, n \in TestNames}
    \cup {PassingTestCase("A", Absent)}

GradeReports ==
    {MalformedReport} \cup {Report(TRUE, tcs) : tcs \in SeqsUpTo(GradeTestCases, MaxOutcomes)}

GradeXmlFiles ==
    {fs \in SeqsUpTo(GradeReports, MaxFiles) \ {<<>>} :
        SumSeq([i \in 1..Len(fs) |-> Len(fs[i].testcases)]) <= MaxOutcomes}

RubricRows == {RubricRow(c, n, m) : c \in ClassNames, n \in TestNames, m \in {25, 50}}

InitGrade ==
    /\ op \in {"grade-txt", "gradescope"}
    /\ pc = "start"
    /\ TIMEOUT = DefaultTimeout
    /\ score_file \in {ScoreFile(rs) : rs \in SeqsUpTo(RubricRows, MaxRows)}
    /\ xml_files \in GradeXmlFiles
    /\ fi = 1
    /\ IdleClassifier
    /\ IdleGenerate
    /\ IdleGrade

\* the `with open(score_filename, 'r')` block
LoadRubric ==
    /\ op \in {"grade-txt", "gradescope"}
    /\ pc = "start"
    /\ all_results' = LoadRows(op, score_file.rows, 1, <<>>)
    /\ total_max' = IF op = "grade-txt"
                    THEN SumSeq([i \in 1..Len(score_file.rows) |-> score_file.rows[i].max_score])
                    ELSE total_max
    /\ total' = 0
    /\ fi' = 1
    /\ test_results' = <<>>
    /\ ti' = 1
    /\ pc' = "merge"
    /\ UNCHANGED <<op, TIMEOUT, testcase, result, score_file, xml_files, max_score,
                   rows, stdout>>

\* test_results = process_junit(f) for the next f of xml_files
ParseFile ==
    /\ op \in {"grade-txt", "gradescope"}
    /\ pc = "merge"
    /\ ti > Len(test_results)
    /\ fi <= Len(xml_files)
    /\ LET parsed == process_junit(xml_files[fi], TIMEOUT)
       IN  IF parsed.raised
           THEN /\ pc' = "fatal"
                /\ UNCHANGED <<test_results, ti, fi>>
           ELSE /\ test_results' = parsed.results
                /\ ti' = 1
                /\ fi' = fi + 1
                /\ pc' = "merge"
    /\ UNCHANGED <<op, TIMEOUT, testcase, result, score_file, xml_files, max_score,
                   rows, all_results, total, total_max, stdout>>

\* one turn of `for test in test_results`
MergeTest ==
    /\ op \in {"grade-txt", "gradescope"}
    /\ pc = "merge"
    /\ ti <= Len(test_results)
    /\ LET test == test_results[ti]
           full_name == FullName(op, test.classname, test.name)
       IN  IF ~HasKey(all_results, full_name)
           THEN /\ pc' = "fatal"
                /\ UNCHANGED <<all_results, total, ti>>
           ELSE LET i == IndexOf(all_results, full_name)
                    score == IF ~test.success THEN 0 ELSE all_results[i].max_score
                IN  /\ all_results' =
                          [all_results EXCEPT
                              ![i].score = score,
                              ![i].output = IF test.output # "" THEN test.output ELSE @]
                    /\ total' = IF op = "grade-txt" THEN total + score ELSE total
                    /\ ti' = ti + 1
                    /\ pc' = "merge"
    /\ UNCHANGED <<op, TIMEOUT, testcase, result, score_file, xml_files, max_score,
                   rows, fi, test_results, total_max, stdout>>

TxtLines ==
    [i \in 1..Len(all_results) |->
        [kind |-> "entry", name |-> all_results[i].name,
         score |-> all_results[i].score, max_score |-> all_results[i].max_score,
         output |-> Missing]]
    \o <<[kind |-> "separator"], [kind |-> "total", total |-> total, total_max |-> total_max]>>

JsonLines ==
    <<[kind |-> "open"]>>
    \o [i \in 1..Len(all_results) |->
        [kind |-> "test", name |-> all_results[i].name,
         score |-> all_results[i].score, max_score |-> all_results[i].max_score,
         output |-> all_results[i].output]]
    \o <<[kind |-> "close"]>>

\* the print calls that follow the merge
Emit ==
    /\ op \in {"grade-txt", "gradescope"}
    /\ pc = "merge"
    /\ ti > Len(test_results)
    /\ fi > Len(xml_files)
    /\ stdout' = IF op = "grade-txt" THEN TxtLines ELSE JsonLines
    /\ pc' = "done"
    /\ UNCHANGED <<op, TIMEOUT, testcase, result, score_file, xml_files, max_score,
                   rows, fi, test_results, ti, all_results, total, total_max>>

NextGrade == LoadRubric \/ ParseFile \/ MergeTest \/ Emit

SpecGrade == InitGrade /\ [][NextGrade]_vars

---------------------------------------------------------------------------
(* The whole program: one run of one operation *)

Init == InitClassify \/ InitGenerate \/ InitGrade

Next == NextClassify \/ NextGenerate \/ NextGrade

Spec == Init /\ [][Next]_vars

---------------------------------------------------------------------------
(* Properties of the reporters *)

IsReporter == op \in {"grade-txt", "gradescope"}

\* the per-entry records of the output, in print order
EntryLines == SelectSeq(stdout, LAMBDA l : l.kind \in {"entry", "test"})

\* the outcomes of all the reports, file order then in-file order
AllOutcomes ==
    Flatten([i \in 1..Len(xml_files) |-> process_junit(xml_files[i], TIMEOUT).results])

RubricPairs == {<<score_file.rows[i].classname, score_file.rows[i].testname>> :
                    i \in 1..Len(score_file.rows)}

\* the outcomes whose (classname, name) pair is p
OutcomesOf(p) == SelectSeq(AllOutcomes, LAMBDA t : <<t.classname, t.name>> = p)

\* the outcomes that the reporter files under the key k
OutcomesUnder(k) == SelectSeq(AllOutcomes, LAMBDA t : FullName(op, t.classname, t.name) = k)

Last(s) == s[Len(s)]

\* C2: the output has exactly one record per rubric row, in rubric-file
\* order, and a row that no report mentions has score 0.
C2_OneRecordPerRow ==
    (IsReporter /\ pc = "done") =>
        /\ Len(EntryLines) = Len(score_file.rows)
        /\ \A i \in 1..Len(score_file.rows) :
              LET r == score_file.rows[i]
              IN  /\ EntryLines[i].name = FullNameStr(r.classname, r.testname)
                  /\ OutcomesOf(<<r.classname, r.testname>>) = <<>>
                        => EntryLines[i].score = 0

\* C3: a testcase whose (classname, name) pair is not in the rubric makes
\* the run fail, and a failed run has printed nothing.
C3_UnknownTestIsFatal ==
    IsReporter =>
        /\ pc = "done" =>
              \A i \in 1..Len(AllOutcomes) :
                  <<AllOutcomes[i].classname, AllOutcomes[i].name>> \in RubricPairs
        /\ pc = "fatal" => stdout = <<>>

\* the score that the last outcome of the pair p gives an entry worth m
ScoreByLastOutcome(p, m) ==
    IF OutcomesOf(p) = <<>> THEN 0
    ELSE IF Last(OutcomesOf(p)).success THEN m
    ELSE 0

\* C7: an entry's score is always 0 or its max_score, in the merge and in
\* the output; after the merge it is max_score if the last outcome of the
\* entry's (classname, testname) passed and 0 if it failed or there is none.
C7_BinaryScore ==
    IsReporter =>
        /\ \A i \in 1..Len(all_results) :
              all_results[i].score \in {0, all_results[i].max_score}
        /\ \A i \in 1..Len(EntryLines) :
              EntryLines[i].score \in {0, EntryLines[i].max_score}
        /\ pc = "done" =>
              \A i \in 1..Len(score_file.rows) :
                  LET r == score_file.rows[i]
                      e == all_results[IndexOf(all_results,
                                               FullName(op, r.classname, r.testname))]
                  IN  e.score = ScoreByLastOutcome(<<r.classname, r.testname>>, e.max_score)

\* C8: the total that grade_txt prints is the sum of the scores on the
\* per-entry lines and is at most the printed total of max scores.
C8_TotalIsSumOfScores ==
    (op = "grade-txt" /\ pc = "done") =>
        LET line == Last(stdout)
        IN  /\ line.total = SumSeq([i \in 1..Len(EntryLines) |-> EntryLines[i].score])
            /\ line.total <= line.total_max

\* C10: after the merge an entry has an output field only if the last
\* outcome filed under its key had a non-empty diagnostic; an entry whose
\* last outcome passed has none.
C10_OutputOfLastOutcome ==
    (IsReporter /\ pc = "done") =>
        \A i \in 1..Len(all_results) :
            all_results[i].output # Missing =>
                /\ OutcomesUnder(all_results[i].key) # <<>>
                /\ Last(OutcomesUnder(all_results[i].key)).output # ""

====
